---- MODULE Spec2Model ----
(***************************************************************************)
(* A model of the gate module of gnh123/scheduler: the createTask handler  *)
(* (gate.go), the worker stream handler with its registration / keepalive  *)
(* routine (gate.go), the status query (status handler) and the start of   *)
(* the gateway process (SubMain, init, registerGateNode), all acting on    *)
(* one etcd key space with leases; and the restart reconciliation of the   *)
(* coordinators as the design notes and the specification describe it.     *)
(*                                                                         *)
(* Keys are byte strings, modelled as sequences of naturals ordered        *)
(* lexicographically.  The four key prefixes are abstracted to one leading *)
(* symbol each, numbered in the alphabetical order of the real prefixes.   *)
(***************************************************************************)
EXTENDS Naturals, Sequences, FiniteSets

VARIABLES store, revision, leases, req, sess, pager, variant, gate, query, coord

vars == <<store, revision, leases, req, sess, pager, variant, gate, query, coord>>

(* ------------------------------ bounds ------------------------------- *)
MaxReq == 2
NumTasks == 2
MaxSess == 2
SnapTasks == 5
MaxLimit == 3
MaxPages == 3
MaxLeaseTime == 3
MaxCoord == 2

(* ------------------------- names and keys ---------------------------- *)
\* The i-th task name: <<1>>, <<1,1>>, <<2>>, <<2,1>>, ... (ascending, with
\* names that are prefixes of other names).
NameOf(i) == IF i % 2 = 1 THEN <<(i + 1) \div 2>> ELSE <<i \div 2, 1>>

TaskNames == {NameOf(i) : i \in 1..NumTasks}

Executers == {"e1", "e2"}

\* model.Param after ShouldBind: the task name and the opaque executor part.
Params == [taskName : TaskNames, executer : Executers]

\* A request body that ShouldBind rejects.
Malformed == [taskName |-> <<>>, executer |-> "malformed"]

GateNodePrefix == <<1>>
RuntimeNodePrefix == <<2>>
GlobalTaskPrefix == <<3>>
GlobalTaskPrefixState == <<4>>

FullGlobalTaskPath(taskName) == GlobalTaskPrefix \o taskName

FullGlobalTaskStatePath(taskName) == GlobalTaskPrefixState \o taskName

\* json.Marshal(req) followed by string(all).
Marshal(p) == <<"json", p.taskName, p.executer>>

\* model.CanRun, the initial TaskState value written by createTask.
CanRun == [state |-> "CanRun", runtimeNode |-> <<>>]

NoLease == 0

(* ----------------------------- etcd KV ------------------------------- *)
\* clientv3 Get of one key: the list of key-values found (0 or 1).
Get(st, key) == IF key \in DOMAIN st THEN <<key>> ELSE <<>>

\* clientv3.CreateRevision(key): 0 for a key that does not exist.
CreateRevision(st, key) == IF key \in DOMAIN st THEN st[key].create_revision ELSE 0

\* One OpPut applied at revision rev: a new key gets create_revision rev,
\* an existing key keeps its create_revision.
ApplyPut(st, op, rev) ==
    LET kv == [value |-> op.value,
               create_revision |-> IF op.key \in DOMAIN st
                                   THEN st[op.key].create_revision ELSE rev,
               lease |-> op.lease]
    IN  [k \in DOMAIN st \cup {op.key} |-> IF k = op.key THEN kv ELSE st[k]]

RECURSIVE ApplyOps(_, _, _)
ApplyOps(st, ops, rev) ==
    IF ops = <<>> THEN st
    ELSE ApplyOps(ApplyPut(st, Head(ops), rev), Tail(ops), rev)

(* ---------------------------- createTask ----------------------------- *)
NoResponse == [status |-> 0, code |-> 0, message |-> "none"]

\* Gate.ok: c.JSON(200, {"code": 0, "message": ""})
Ok == [status |-> 200, code |-> 0, message |-> ""]

\* Gate.error: c.JSON(500, {"code": code, "message": msg})
Error(code, msg) == [status |-> 500, code |-> code, message |-> msg]

\* if len(rsp.Kvs) > 0 { duplicate creation }
IsDuplicate_Mut(kvs) == Len(kvs) = 0
IsDuplicate(kvs) == Len(kvs) > 0

\* txn.If(Compare(CreateRevision(globalTaskName), "=", 0))
TxnIf_Mut(st, globalTaskName) == TRUE
TxnIf(st, globalTaskName) == CreateRevision(st, globalTaskName) = 0

\* .Then(OpPut(globalTaskName, all), OpPut(globalTaskStateName, CanRun))
TxnThen_Mut(globalTaskName, globalTaskStateName, all) ==
    << [key |-> globalTaskName, value |-> all, lease |-> NoLease] >>
TxnThen(globalTaskName, globalTaskStateName, all) ==
    << [key |-> globalTaskName, value |-> all, lease |-> NoLease],
       [key |-> globalTaskStateName, value |-> CanRun, lease |-> NoLease] >>

\* .Else()
TxnElse_Mut(globalTaskName, globalTaskStateName, all) ==
    << [key |-> globalTaskName, value |-> all, lease |-> NoLease],
       [key |-> globalTaskStateName, value |-> CanRun, lease |-> NoLease] >>
TxnElse(globalTaskName, globalTaskStateName, all) == <<>>

\* if !txnRsp.Succeeded { error } else ok
TxnResponse_Mut(succeeded) == IF succeeded THEN Error(500, "txn failed") ELSE Ok
TxnResponse(succeeded) == IF succeeded THEN Ok ELSE Error(500, "txn failed")

Reqs == 1..MaxReq

InitReq == [r \in Reqs |-> [pc |-> "idle", param |-> Malformed, err |-> FALSE,
                            succeeded |-> FALSE, response |-> NoResponse]]

\* A request arrives: c.ShouldBind(&req), then the two key names are built.
CreateTaskBind(r) ==
    /\ req[r].pc = "idle"
    /\ \E p \in Params \cup {Malformed} :
         IF p = Malformed
         THEN req' = [req EXCEPT ![r] = [@ EXCEPT !.pc = "done", !.param = p, !.err = TRUE,
                                                    !.response = Error(500, "createTask")]]
         ELSE req' = [req EXCEPT ![r] = [@ EXCEPT !.pc = "get", !.param = p]]
    /\ UNCHANGED <<store, revision, leases, sess, pager, gate, query, coord>>

\* rsp, err := defaultKVC.Get(ctx, globalTaskName, WithKeysOnly()); the
\* duplicate test; json.Marshal.  When the Get fails rsp is nil and
\* len(rsp.Kvs) dereferences it: the handler panics without a response
\* (net/http recovers the panic and drops the connection).
CreateTaskGet(r) ==
    /\ req[r].pc = "get"
    /\ LET globalTaskName == FullGlobalTaskPath(req[r].param.taskName) IN
       \E getFails \in BOOLEAN :
         IF getFails
         THEN req' = [req EXCEPT ![r] = [@ EXCEPT !.pc = "panicked", !.err = TRUE]]
         ELSE IF IsDuplicate(Get(store, globalTaskName))
              THEN req' = [req EXCEPT ![r] = [@ EXCEPT !.pc = "done",
                                   !.response = Error(500, "duplicate creation")]]
              ELSE req' = [req EXCEPT ![r] = [@ EXCEPT !.pc = "txn"]]
    /\ UNCHANGED <<store, revision, leases, sess, pager, gate, query, coord>>

\* txn.If(...).Then(...).Else(); txnRsp, err := txn.Commit(); the response.
\* A Commit that returns an error has not been applied.
CreateTaskCommit(r) ==
    /\ req[r].pc = "txn"
    /\ LET globalTaskName == FullGlobalTaskPath(req[r].param.taskName)
           globalTaskStateName == FullGlobalTaskStatePath(req[r].param.taskName)
           all == Marshal(req[r].param)
           succeeded == TxnIf(store, globalTaskName)
           ops == IF succeeded
                  THEN TxnThen(globalTaskName, globalTaskStateName, all)
                  ELSE TxnElse(globalTaskName, globalTaskStateName, all)
       IN
       \E commitFails \in BOOLEAN :
         IF commitFails
         THEN /\ req' = [req EXCEPT ![r] = [@ EXCEPT !.pc = "done", !.err = TRUE,
                                     !.response = Error(500, "txn error")]]
              /\ UNCHANGED <<store, revision>>
         ELSE /\ store' = ApplyOps(store, ops, revision + 1)
              /\ revision' = IF ops = <<>> THEN revision ELSE revision + 1
              /\ req' = [req EXCEPT ![r] = [@ EXCEPT !.pc = "done", !.succeeded = succeeded,
                                     !.response = TxnResponse(succeeded)]]
    /\ UNCHANGED <<leases, sess, pager, gate, query, coord>>

InitStore == << >>

(* --------------- createTask without the keys-only read --------------- *)
\* The variant of createTask that has no defaultKVC.Get: ShouldBind,
\* json.Marshal, then the same transaction and the same responses.  It is
\* run on a store of its own (variant.store, variant.revision) with the
\* same requests; variant.response[r] is what it answers to request r.
InitVariant == [store |-> InitStore, revision |-> 1,
                response |-> [r \in Reqs |-> NoResponse]]

\* The transaction and response of the variant for request r with body p.
VariantCommit(v, r, p, commitFails) ==
    LET globalTaskName == FullGlobalTaskPath(p.taskName)
        globalTaskStateName == FullGlobalTaskStatePath(p.taskName)
        all == Marshal(p)
        succeeded == TxnIf(v.store, globalTaskName)
        ops == IF succeeded
               THEN TxnThen(globalTaskName, globalTaskStateName, all)
               ELSE TxnElse(globalTaskName, globalTaskStateName, all)
    IN  IF commitFails
        THEN [v EXCEPT !.response[r] = Error(500, "txn error")]
        ELSE [v EXCEPT !.store = ApplyOps(v.store, ops, v.revision + 1),
                       !.revision = IF ops = <<>> THEN @ ELSE @ + 1,
                       !.response[r] = TxnResponse(succeeded)]

\* The variant is given each request at the step where createTask decides
\* it.  A body that does not bind is refused by both at the bind.
VariantAtBind(r) ==
    variant' = IF req'[r].param = Malformed
               THEN [variant EXCEPT !.response[r] = Error(500, "createTask")]
               ELSE variant

\* createTask's read: a request that passes it is decided at its Commit;
\* one that is refused as a duplicate, or whose read fails, goes no further,
\* and the variant, which has no read, runs its transaction at this point.
VariantAtGet(r) ==
    variant' = IF req'[r].pc = "txn"
               THEN variant
               ELSE VariantCommit(variant, r, req[r].param, FALSE)

\* createTask's Commit: the variant commits too, and its Commit fails when
\* createTask's does.
VariantAtCommit(r) ==
    variant' = VariantCommit(variant, r, req[r].param, req'[r].err)

(* ------------------- worker sessions and leases ---------------------- *)
\* Gate.LeaseTime (default 4s), counted in ticks of 2s.
LeaseTime == 2

NamePrefix == <<7>>

Name == <<8>>

Dash == <<5>>

\* Gate.NodeName: fmt.Sprintf("%s-%s", NamePrefix, Name)
NodeName == NamePrefix \o Dash \o Name

\* Gate.ServerAddr
ServerAddr == "gate-addr"

\* The worker behind session s, named in its whoami message: sessions 1 and
\* 2 belong to two different workers, a third session is worker 1 again.
WorkerOf(s) == <<((s - 1) % 2) + 1>>

FullRuntimeNodePath(name) == RuntimeNodePrefix \o name

Sessions == 1..MaxSess

\* hpc: the handler (Gate.stream): "init" before Upgrade, "read" in
\* con.ReadJSON, "send" in keepalive <- true, "done" after the loop.
\* rpc: the routine (registerRuntimeWithKeepalive): "none" before the go
\* statement, "newlease", "put", "range" (waiting in for range keepalive),
\* "renew" (about to call KeepAliveOnce), "returned".
InitSess == [s \in Sessions |->
               [hpc |-> "init", first |-> TRUE,
                started |-> 0, rpc |-> "none", runtimeName |-> <<>>,
                leaseID |-> NoLease, granted |-> 0, nodeKey |-> <<>>]]

\* upgrader.Upgrade; first := true; keepalive := make(chan bool)
Upgrade(s) ==
    /\ sess[s].hpc = "init"
    /\ \E upgradeFails \in BOOLEAN :
         IF upgradeFails
         THEN sess' = [sess EXCEPT ![s] = [@ EXCEPT !.hpc = "done"]]
         ELSE sess' = [sess EXCEPT ![s] = [@ EXCEPT !.hpc = "read"]]
    /\ UNCHANGED <<store, revision, leases, req, pager, variant, gate, query, coord>>

\* if first { go registerRuntimeWithKeepalive(...) ; first = false }
StartsRegistration_Mut(first) == TRUE
StartsRegistration(first) == first

\* con.ReadJSON returns a message: the first one starts the registration
\* routine with req.Name, every later one goes to keepalive <- true.
ReadMsg(s) ==
    /\ sess[s].hpc = "read"
    /\ IF StartsRegistration(sess[s].first)
       THEN sess' = [sess EXCEPT ![s] = [@ EXCEPT !.first = FALSE, !.started = @ + 1,
                          !.rpc = "newlease", !.runtimeName = WorkerOf(s)]]
       ELSE sess' = [sess EXCEPT ![s] = [@ EXCEPT !.hpc = "send"]]
    /\ UNCHANGED <<store, revision, leases, req, pager, variant, gate, query, coord>>

\* con.ReadJSON returns an error (read failure or remote close): break,
\* then the deferred con.Close().
AfterReadErr(q) == [q EXCEPT !.hpc = "done"]

ReadErr(s) ==
    /\ sess[s].hpc = "read"
    /\ sess' = [sess EXCEPT ![s] = AfterReadErr(@)]
    /\ UNCHANGED <<store, revision, leases, req, pager, variant, gate, query, coord>>

\* keepalive <- true meets for range keepalive (unbuffered channel).
KeepaliveSend(s) ==
    /\ sess[s].hpc = "send"
    /\ sess[s].rpc = "range"
    /\ sess' = [sess EXCEPT ![s] = [@ EXCEPT !.hpc = "read", !.rpc = "renew"]]
    /\ UNCHANGED <<store, revision, leases, req, pager, variant, gate, query, coord>>

\* The ID the service gives to the n-th lease granted to session s's
\* routine: never 0 and different from every other granted ID.
GrantedLeaseID(s, n) == s + MaxSess * (n - 1)

\* utils.NewLease(ctx, log, client, LeaseTime): a failure returns from the
\* routine.
RegisterNewLease(s) ==
    /\ sess[s].rpc = "newlease"
    /\ \E newLeaseFails \in BOOLEAN :
         IF newLeaseFails
         THEN /\ sess' = [sess EXCEPT ![s] = [@ EXCEPT !.rpc = "returned"]]
              /\ UNCHANGED leases
         ELSE LET id == GrantedLeaseID(s, sess[s].granted + 1) IN
              /\ leases' = [l \in DOMAIN leases \cup {id} |->
                               IF l = id THEN LeaseTime ELSE leases[l]]
              /\ sess' = [sess EXCEPT ![s] = [@ EXCEPT !.rpc = "put", !.leaseID = id,
                                                        !.granted = @ + 1]]
    /\ UNCHANGED <<store, revision, req, pager, variant, gate, query, coord>>

\* The key of defautlClient.Put in registerRuntimeWithKeepalive.
RegisteredNodeKey(runtimeName) == FullRuntimeNodePath(NodeName)

\* _, err = defautlClient.Put(ctx, key, ServerAddr, WithLease(leaseID)); err
\* is not looked at.  The Put fails when the service fails or the lease has
\* already expired.
RegisterPut(s) ==
    /\ sess[s].rpc = "put"
    /\ LET key == RegisteredNodeKey(sess[s].runtimeName) IN
       \E putFails \in BOOLEAN :
         IF putFails \/ sess[s].leaseID \notin DOMAIN leases
         THEN /\ sess' = [sess EXCEPT ![s] = [@ EXCEPT !.rpc = "range"]]
              /\ UNCHANGED <<store, revision>>
         ELSE /\ store' = ApplyPut(store, [key |-> key, value |-> ServerAddr,
                                           lease |-> sess[s].leaseID], revision + 1)
              /\ revision' = revision + 1
              /\ sess' = [sess EXCEPT ![s] = [@ EXCEPT !.rpc = "range", !.nodeKey = key]]
    /\ UNCHANGED <<leases, req, pager, variant, gate, query, coord>>

\* lease.KeepAliveOnce(ctx, leaseID): renews a lease that still exists; the
\* result is not looked at.
KeepAliveOnce(s) ==
    /\ sess[s].rpc = "renew"
    /\ \E renewFails \in BOOLEAN :
         IF renewFails \/ sess[s].leaseID \notin DOMAIN leases
         THEN UNCHANGED leases
         ELSE leases' = [leases EXCEPT ![sess[s].leaseID] = LeaseTime]
    /\ sess' = [sess EXCEPT ![s] = [@ EXCEPT !.rpc = "range"]]
    /\ UNCHANGED <<store, revision, req, pager, variant, gate, query, coord>>

\* One tick of time: every lease loses one tick of its TTL; a lease that
\* reaches 0 expires and the keys attached to it are deleted.
Tick ==
    /\ DOMAIN leases # {}
    /\ LET expired == {l \in DOMAIN leases : leases[l] = 1}
           gone == {k \in DOMAIN store : store[k].lease \in expired}
       IN  /\ leases' = [l \in DOMAIN leases \ expired |-> leases[l] - 1]
           /\ store' = [k \in DOMAIN store \ gone |-> store[k]]
           /\ revision' = IF gone = {} THEN revision ELSE revision + 1
    /\ UNCHANGED <<sess, req, pager, variant, gate, query, coord>>

(* -------------------------- gateway startup -------------------------- *)
\* model.RuntimeKeepalive, in seconds.
RuntimeKeepalive == 2

\* The values of the -lease-time option, in seconds.
LeaseTimes == 0..MaxLeaseTime

\* utils.GetUnusedAddr()
GetUnusedAddr == "auto-addr"

FullGateNodePath(name) == GateNodePrefix \o name

\* The ID of the lease utils.NewLeaseWithKeepalive gives the gateway.
GateLeaseID == 2 * MaxSess + 1

\* The gateway process.  ServerAddr, AutoFindAddr, LeaseTime: the options.
\* pc: SubMain, "start" before init, "inited", "routes" after the go
\* statement, "serving" in g.Run, "exited" when g.Run returned, "crashed"
\* after a panic.  rpc: the goroutine of registerGateNode, "none",
\* "getaddr", "newlease", "put", "registered" (returned nil), "failed"
\* (returned an error), "panicked".  addr is the local addr of
\* registerGateNode.
InitGate == [ServerAddr |-> ServerAddr, AutoFindAddr |-> FALSE, LeaseTime |-> 2 * LeaseTime,
             pc |-> "start", rpc |-> "none", addr |-> "", leaseID |-> NoLease]

\* if r.LeaseTime < model.RuntimeKeepalive { r.LeaseTime = model.RuntimeKeepalive + time.Second }
ClampLeaseTime(leaseTime) ==
    IF leaseTime < RuntimeKeepalive THEN RuntimeKeepalive + 1 ELSE leaseTime

\* Gate.init: the clamp, then utils.NewEtcdClient; SubMain panics when init
\* returns an error.
GateInit ==
    /\ gate.pc = "start"
    /\ \E newEtcdClientFails \in BOOLEAN :
         gate' = [gate EXCEPT !.LeaseTime = ClampLeaseTime(@),
                              !.pc = IF newEtcdClientFails THEN "crashed" ELSE "inited"]
    /\ UNCHANGED <<store, revision, leases, req, sess, pager, variant, query, coord>>

\* go r.registerGateNode(); then the routes are set up.
GoRegisterGateNode ==
    /\ gate.pc = "inited"
    /\ gate' = [gate EXCEPT !.pc = "routes", !.rpc = "getaddr"]
    /\ UNCHANGED <<store, revision, leases, req, sess, pager, variant, query, coord>>

\* g.Run(): the gateway listens and serves; when it cannot, Run returns,
\* SubMain returns and the process ends.
Run ==
    /\ gate.pc = "routes"
    /\ \E runFails \in BOOLEAN :
         gate' = [gate EXCEPT !.pc = IF runFails THEN "exited" ELSE "serving"]
    /\ UNCHANGED <<store, revision, leases, req, sess, pager, variant, query, coord>>

\* Gate.getAddress
getAddress(g) ==
    IF g.ServerAddr # "" THEN g.ServerAddr
    ELSE IF g.AutoFindAddr THEN GetUnusedAddr
    ELSE ""

\* The process is running: the goroutine can take a step.
Alive(g) == g.pc \in {"routes", "serving"}

\* addr := r.getAddress(); if addr == "" { panic(...) }: a panic in a
\* goroutine ends the whole process.
RegisterGetAddress ==
    /\ Alive(gate)
    /\ gate.rpc = "getaddr"
    /\ LET addr == getAddress(gate) IN
       gate' = IF addr = ""
               THEN [gate EXCEPT !.pc = "crashed", !.rpc = "panicked"]
               ELSE [gate EXCEPT !.rpc = "newlease", !.addr = addr]
    /\ UNCHANGED <<store, revision, leases, req, sess, pager, variant, query, coord>>

\* leaseID, err := utils.NewLeaseWithKeepalive(ctx, log, client, r.LeaseTime);
\* if err != nil { return err }
RegisterGateNewLease ==
    /\ Alive(gate)
    /\ gate.rpc = "newlease"
    /\ \E newLeaseFails \in BOOLEAN :
         IF newLeaseFails
         THEN /\ gate' = [gate EXCEPT !.rpc = "failed"]
              /\ UNCHANGED leases
         ELSE /\ leases' = [l \in DOMAIN leases \cup {GateLeaseID} |->
                               IF l = GateLeaseID THEN gate.LeaseTime ELSE leases[l]]
              /\ gate' = [gate EXCEPT !.rpc = "put", !.leaseID = GateLeaseID]
    /\ UNCHANGED <<store, revision, req, sess, pager, variant, query, coord>>

\* The value of the Put in registerGateNode: r.ServerAddr.
RegisteredGateValue(g) == g.ServerAddr

\* _, err = defautlClient.Put(ctx, model.FullGateNodePath(r.NodeName()),
\*                            r.ServerAddr, WithLease(leaseID)); return err
RegisterGatePut ==
    /\ Alive(gate)
    /\ gate.rpc = "put"
    /\ \E putFails \in BOOLEAN :
         IF putFails
         THEN /\ gate' = [gate EXCEPT !.rpc = "failed"]
              /\ UNCHANGED <<store, revision>>
         ELSE /\ store' = ApplyPut(store, [key |-> FullGateNodePath(NodeName),
                                           value |-> RegisteredGateValue(gate),
                                           lease |-> gate.leaseID], revision + 1)
              /\ revision' = revision + 1
              /\ gate' = [gate EXCEPT !.rpc = "registered"]
    /\ UNCHANGED <<leases, req, sess, pager, variant, query, coord>>

(* ------------------------------ status ------------------------------- *)
\* Byte-string order of keys.
RECURSIVE KeyLess(_, _)
KeyLess(a, b) ==
    IF a = <<>> THEN b # <<>>
    ELSE IF b = <<>> THEN FALSE
    ELSE IF a[1] # b[1] THEN a[1] < b[1]
    ELSE KeyLess(Tail(a), Tail(b))

\* endGlobalTaskKey = model.GlobalTaskPrefixState + "\xff" * 8
endGlobalTaskKey == GlobalTaskPrefixState \o <<255, 255, 255, 255, 255, 255, 255, 255>>

\* The keys of S in ascending order.
RECURSIVE SortAscend(_)
SortAscend(S) ==
    IF S = {} THEN <<>>
    ELSE LET m == CHOOSE k \in S : \A k2 \in S \ {k} : KeyLess(k, k2)
         IN  <<m>> \o SortAscend(S \ {m})

Reverse(q) == [i \in 1..Len(q) |-> q[Len(q) + 1 - i]]

\* if strings.HasPrefix(p.Sort, "-") { SortDescend } else SortAscend
SortOrder_Mut(sort) == "ascend"
SortOrder(sort) == IF sort = "-" THEN "descend" ELSE "ascend"

\* Get(startKey, WithRange(end), WithSort(SortByKey, order), WithLimit(limit)):
\* the keys of [startKey, end) in the order asked for, cut to limit keys
\* (limit 0 is no limit).
GetRange(st, startKey, end, order, limit) ==
    LET S == {k \in DOMAIN st : ~KeyLess(k, startKey) /\ KeyLess(k, end)}
        q == IF order = "descend" THEN Reverse(SortAscend(S)) ELSE SortAscend(S)
    IN  IF limit = 0 \/ Len(q) <= limit THEN q ELSE SubSeq(q, 1, limit)

\* Get(model.GlobalTaskPrefixState, WithCountOnly(), WithPrefix())
CountPrefix(st, prefix) ==
    Cardinality({k \in DOMAIN st : Len(k) >= Len(prefix) /\ SubSeq(k, 1, Len(prefix)) = prefix})

\* if p.Limit == 0 { p.Limit = 10 }
DefaultLimit(limit) == IF limit = 0 THEN 10 ELSE limit

\* startKey := model.GlobalTaskPrefixState;
\* if p.ID == "" && p.StartKey != "" { startKey = p.StartKey }
StartKeyOf(p) ==
    IF p.ID = <<>> /\ p.StartKey # <<>> THEN p.StartKey ELSE GlobalTaskPrefixState

\* The start key the json envelope carries: StartKey: startKey.
ReturnedStartKey(startKey, kvs) == startKey

\* Gate.status for format json when no coordination-service call fails and
\* every value parses: {total, items, startKey}; items are given by their keys.
Status(st, p) ==
    LET startKey == StartKeyOf(p)
        kvs == GetRange(st, startKey, endGlobalTaskKey, SortOrder(p.Sort), DefaultLimit(p.Limit))
    IN  [code |-> 200,
         total |-> CountPrefix(st, GlobalTaskPrefixState),
         items |-> kvs,
         startKey |-> ReturnedStartKey(startKey, kvs)]

\* The first SnapTasks task names.
SnapNames == {NameOf(i) : i \in 1..SnapTasks}

\* The store after the tasks of T have been created, one createTask
\* transaction each, in the order of their names.
RECURSIVE Snapshot(_)
Snapshot(T) ==
    IF T = {} THEN InitStore
    ELSE LET t == CHOOSE x \in T : \A y \in T \ {x} : KeyLess(y, x)
             p == [taskName |-> t, executer |-> "e1"]
         IN  ApplyOps(Snapshot(T \ {t}),
                      TxnThen(FullGlobalTaskPath(t), FullGlobalTaskStatePath(t), Marshal(p)),
                      Cardinality(T) + 1)

\* A client that pages through status: it has asked calls pages of limit
\* items in order sort, passes startKey (empty on the first call) and has
\* collected the item keys in pages; it stops at a page shorter than limit.
InitPager == [startKey |-> <<>>, limit |-> 1, sort |-> "", pages |-> <<>>,
              calls |-> 0, done |-> FALSE]

\* One status call of the paging client (format json, no id), with the start
\* key of the previous response.  A call that fails with 500 is repeated.
StatusNextPage ==
    /\ ~pager.done
    /\ pager.calls < MaxPages
    /\ \E statusFails \in BOOLEAN :
         IF statusFails
         THEN pager' = [pager EXCEPT !.calls = @ + 1]
         ELSE LET rsp == Status(store, [ID |-> <<>>, StartKey |-> pager.startKey,
                                        Limit |-> pager.limit, Sort |-> pager.sort,
                                        Format |-> "json"])
              IN  pager' = [pager EXCEPT !.calls = @ + 1,
                                         !.startKey = rsp.startKey,
                                         !.pages = @ \o rsp.items,
                                         !.done = Len(rsp.items) < pager.limit]
    /\ UNCHANGED <<store, revision, leases, req, sess, variant, gate, query, coord>>

(* ---------------------- restart reconciliation ----------------------- *)
\* What a restarted coordinator does (design notes "如果集群重启了怎么办",
\* section 4.4 of the specification): wait a random time, traverse the task
\* list, take the distributed lock of a task, and reassign the task when it
\* is running globally and its runtime is not there.
Coords == 1..MaxCoord

TaskLockPrefix == <<6>>

\* The key of the distributed lock scoped to taskName.
TaskLockPath(taskName) == TaskLockPrefix \o taskName

\* A TaskState value: Running on the runtime whose node key is runtimeNode.
Running(runtimeNode) == [state |-> "Running", runtimeNode |-> runtimeNode]

\* The node key of a runtime that is gone, and of one that may be live.
DeadNode == FullRuntimeNodePath(<<1>>)

LiveNode == FullRuntimeNodePath(<<2>>)

\* The live runtimes: the node records present in the store.
LiveNodes(st) ==
    {k \in DOMAIN st : Len(k) > Len(RuntimeNodePrefix)
                       /\ SubSeq(k, 1, Len(RuntimeNodePrefix)) = RuntimeNodePrefix}

\* A task that is running globally on a runtime that is not live.
Orphan(st, taskName) ==
    LET k == FullGlobalTaskStatePath(taskName) IN
    /\ k \in DOMAIN st
    /\ st[k].value.state = "Running"
    /\ st[k].value.runtimeNode \notin DOMAIN st

\* Acquiring the lock succeeds when nobody holds it.
LockFree_Mut(st, taskName) == TRUE
LockFree(st, taskName) == TaskLockPath(taskName) \notin DOMAIN st

Delete(st, key) == [k \in DOMAIN st \ {key} |-> st[k]]

\* pc: "jitter" (waiting the random time), "next" (traversing the list),
\* "check" and "reassign" (holding the lock of cur), "unlock", "done".
\* todo: the tasks of the list not yet visited; did: the tasks this
\* coordinator has reassigned; skipped: those whose lock it did not get.
InitCoord == [c \in Coords |-> [pc |-> "jitter", todo |-> {}, cur |-> <<>>,
                                did |-> {}, skipped |-> {}]]

\* The random wait is over: the coordinator reads the task list.
CoordScan(c) ==
    /\ coord[c].pc = "jitter"
    /\ coord' = [coord EXCEPT ![c] = [@ EXCEPT !.pc = "next",
                   !.todo = {t \in TaskNames : FullGlobalTaskStatePath(t) \in DOMAIN store}]]
    /\ UNCHANGED <<store, revision, leases, req, sess, pager, variant, gate, query>>

\* The next task of the list: take its lock; a lock that is held means
\* another coordinator owns the task, which is then skipped.
CoordTryLock(c) ==
    /\ coord[c].pc = "next"
    /\ coord[c].todo # {}
    /\ LET t == CHOOSE x \in coord[c].todo : \A y \in coord[c].todo \ {x} : KeyLess(x, y) IN
       IF LockFree(store, t)
       THEN /\ store' = ApplyPut(store, [key |-> TaskLockPath(t), value |-> c,
                                         lease |-> NoLease], revision + 1)
            /\ revision' = revision + 1
            /\ coord' = [coord EXCEPT ![c] = [@ EXCEPT !.pc = "check", !.cur = t]]
       ELSE /\ coord' = [coord EXCEPT ![c] = [@ EXCEPT !.todo = @ \ {t},
                                                        !.skipped = @ \cup {t}]]
            /\ UNCHANGED <<store, revision>>
    /\ UNCHANGED <<leases, req, sess, pager, variant, gate, query>>

\* The list is finished.
CoordFinish(c) ==
    /\ coord[c].pc = "next"
    /\ coord[c].todo = {}
    /\ coord' = [coord EXCEPT ![c] = [@ EXCEPT !.pc = "done"]]
    /\ UNCHANGED <<store, revision, leases, req, sess, pager, variant, gate, query>>

\* Under the lock: is the task running globally with its runtime gone?
CoordCheck(c) ==
    /\ coord[c].pc = "check"
    /\ coord' = [coord EXCEPT ![c] = [@ EXCEPT !.pc =
                   IF Orphan(store, coord[c].cur) THEN "reassign" ELSE "unlock"]]
    /\ UNCHANGED <<store, revision, leases, req, sess, pager, variant, gate, query>>

\* Reassignment: a live runtime is chosen and written as the task's
\* runtimeNode; with no live runtime the task stays unassigned.
CoordReassign(c) ==
    /\ coord[c].pc = "reassign"
    /\ IF LiveNodes(store) = {}
       THEN /\ coord' = [coord EXCEPT ![c] = [@ EXCEPT !.pc = "unlock"]]
            /\ UNCHANGED <<store, revision>>
       ELSE \E w \in LiveNodes(store) :
            /\ store' = ApplyPut(store, [key |-> FullGlobalTaskStatePath(coord[c].cur),
                                         value |-> Running(w), lease |-> NoLease],
                                 revision + 1)
            /\ revision' = revision + 1
            /\ coord' = [coord EXCEPT ![c] = [@ EXCEPT !.pc = "unlock",
                                                        !.did = @ \cup {coord[c].cur}]]
    /\ UNCHANGED <<leases, req, sess, pager, variant, gate, query>>

\* The lock is released and the traversal goes on.
CoordUnlock(c) ==
    /\ coord[c].pc = "unlock"
    /\ store' = Delete(store, TaskLockPath(coord[c].cur))
    /\ revision' = revision + 1
    /\ coord' = [coord EXCEPT ![c] = [@ EXCEPT !.pc = "next", !.todo = @ \ {coord[c].cur},
                                                !.cur = <<>>]]
    /\ UNCHANGED <<leases, req, sess, pager, variant, gate, query>>

\* The store at a cluster restart: every task of TaskNames has been created;
\* the tasks of T were running on a runtime that is gone, the others have
\* not been assigned; the runtime LiveNode is registered when live.
RestartStore(T, live) ==
    LET base == Snapshot(TaskNames)
        states == [k \in DOMAIN base |->
                     IF \E t \in T : k = FullGlobalTaskStatePath(t)
                     THEN [base[k] EXCEPT !.value = Running(DeadNode)]
                     ELSE base[k]]
    IN  IF live
        THEN ApplyPut(states, [key |-> LiveNode, value |-> ServerAddr,
                               lease |-> GateLeaseID], Cardinality(TaskNames) + 2)
        ELSE states

(* --------------------------- status query ---------------------------- *)
\* One call of Gate.status, step by step.  pc: "idle", "range" (before the
\* range Get), "count" (before the count Get), "loop" (in for range
\* resp.Kvs, at element idx), "done".  p is the bound StatusRequest, kvs the
\* key-value pairs of the range read, count resp2.Count, rows what the loop
\* has appended to data or list, failed whether a service call or
\* ValueToState returned an error.
NoStatusRequest == [ID |-> <<>>, StartKey |-> <<>>, Limit |-> 0, Sort |-> "", Format |-> ""]

NoStatusResponse == [status |-> 0, format |-> "", total |-> 0, items |-> <<>>, startKey |-> <<>>]

InitQuery == [pc |-> "idle", p |-> NoStatusRequest, kvs |-> <<>>, count |-> 0, idx |-> 0,
              rows |-> <<>>, failed |-> FALSE, response |-> NoStatusResponse]

\* Gate.error2(ctx, 500, msg)
Error2(rsp) == [rsp EXCEPT !.status = 500]

\* The query strings: id, start_key (nothing, a key before the TaskState
\* prefix, or the key of a TaskState record), limit, sort, format.
StatusRequests ==
    [ID : {<<>>, <<9>>},
     StartKey : {<<>>, GlobalTaskPrefix} \cup {FullGlobalTaskStatePath(t) : t \in SnapNames},
     Limit : 0..MaxLimit,
     Sort : {"", "-"},
     Format : {"table", "json", ""}]

\* ctx.ShouldBindQuery(&p)
StatusBind ==
    /\ query.pc = "idle"
    /\ \E bindFails \in BOOLEAN :
         IF bindFails
         THEN query' = [query EXCEPT !.pc = "done", !.failed = TRUE,
                                     !.response = Error2(@)]
         ELSE \E p \in StatusRequests : query' = [query EXCEPT !.pc = "range", !.p = p]
    /\ UNCHANGED <<store, revision, leases, req, sess, pager, variant, gate, coord>>

\* The limit default, the start key, the sort order and the range Get.
StatusRange ==
    /\ query.pc = "range"
    /\ \E getFails \in BOOLEAN :
         IF getFails
         THEN query' = [query EXCEPT !.pc = "done", !.failed = TRUE,
                                     !.response = Error2(@)]
         ELSE LET keys == GetRange(store, StartKeyOf(query.p), endGlobalTaskKey,
                                   SortOrder(query.p.Sort), DefaultLimit(query.p.Limit))
              IN  query' = [query EXCEPT !.pc = "count",
                              !.kvs = [i \in 1..Len(keys) |->
                                         [key |-> keys[i], value |-> store[keys[i]].value]]]
    /\ UNCHANGED <<store, revision, leases, req, sess, pager, variant, gate, coord>>

\* resp2: the count of the keys with the TaskState prefix.
StatusCount ==
    /\ query.pc = "count"
    /\ \E getFails \in BOOLEAN :
         IF getFails
         THEN query' = [query EXCEPT !.pc = "done", !.failed = TRUE,
                                     !.response = Error2(@)]
         ELSE query' = [query EXCEPT !.pc = "loop", !.idx = 1,
                                     !.count = CountPrefix(store, GlobalTaskPrefixState)]
    /\ UNCHANGED <<store, revision, leases, req, sess, pager, variant, gate, coord>>

\* Whether key is the key of a TaskState record.
IsStateKey(key) ==
    /\ Len(key) >= Len(GlobalTaskPrefixState)
    /\ SubSeq(key, 1, Len(GlobalTaskPrefixState)) = GlobalTaskPrefixState

\* The State that model.ValueToState makes of a value that is not a
\* TaskState, when it makes one: no field is set.
ZeroState == [state |-> "", runtimeNode |-> <<>>]

\* The row of the table: ..., s.RuntimeNode, ..., ip.  looked is the local
\* ip of the loop, address what the row shows as the node's address.
TableRow(key, s, ip) ==
    [key |-> key, runtimeNode |-> s.runtimeNode, looked |-> ip, address |-> ip]

\* var status stateRsp; deepcopy.Copy(&status, &s).Do(): the fields of the
\* State are copied; status.Ip is not assigned.
StateRspOf(key, s, ip) ==
    [key |-> key, runtimeNode |-> s.runtimeNode, looked |-> ip, address |-> ""]

\* One round of for _, kv := range resp.Kvs: ValueToState, the point lookup
\* of s.RuntimeNode, and the append to data or to list.
StatusItem ==
    /\ query.pc = "loop"
    /\ query.idx <= Len(query.kvs)
    /\ LET kv == query.kvs[query.idx] IN
       \E parses \in BOOLEAN, getFails \in BOOLEAN :
         LET isState == IsStateKey(kv.key)
             s == IF isState THEN kv.value ELSE ZeroState
             lookup == Len(s.runtimeNode) > 0
             ip == IF lookup /\ s.runtimeNode \in DOMAIN store
                   THEN store[s.runtimeNode].value ELSE ""
         IN  IF (~isState /\ ~parses) \/ (lookup /\ getFails)
             THEN query' = [query EXCEPT !.pc = "done", !.failed = TRUE,
                                         !.response = Error2(@)]
             ELSE query' = [query EXCEPT !.idx = @ + 1,
                              !.rows = Append(@, IF query.p.Format = "table"
                                                 THEN TableRow(kv.key, s, ip)
                                                 ELSE StateRspOf(kv.key, s, ip))]
    /\ UNCHANGED <<store, revision, leases, req, sess, pager, variant, gate, coord>>

\* After the loop: the table, the json envelope, or nothing at all for any
\* other format (the status of an unwritten response is 200).
StatusRespond ==
    /\ query.pc = "loop"
    /\ query.idx > Len(query.kvs)
    /\ query' = [query EXCEPT !.pc = "done", !.response =
                   IF query.p.Format = "table"
                   THEN [status |-> 200, format |-> "table", total |-> 0,
                         items |-> query.rows, startKey |-> <<>>]
                   ELSE IF query.p.Format = "json"
                   THEN [status |-> 200, format |-> "json", total |-> query.count,
                         items |-> query.rows,
                         startKey |-> ReturnedStartKey(StartKeyOf(query.p), query.kvs)]
                   ELSE [NoStatusResponse EXCEPT !.status = 200]]
    /\ UNCHANGED <<store, revision, leases, req, sess, pager, variant, gate, coord>>

\* The lease l is not renewed any more and expires: the keys attached to it
\* are deleted.
LeaseExpire(l) ==
    /\ l \in DOMAIN leases
    /\ LET gone == {k \in DOMAIN store : store[k].lease = l} IN
       /\ leases' = [x \in DOMAIN leases \ {l} |-> leases[x]]
       /\ store' = [k \in DOMAIN store \ gone |-> store[k]]
       /\ revision' = IF gone = {} THEN revision ELSE revision + 1
    /\ UNCHANGED <<req, sess, pager, variant, gate, query, coord>>

\* The store a status query runs on: the first n tasks have been created;
\* of every three, the first is running on the runtime LiveNode, the second
\* on the runtime DeadNode, which has no node record, and the third is not
\* assigned; LiveNode is registered under a lease.
QueryStore(n) ==
    LET T == {NameOf(i) : i \in 1..n}
        base == Snapshot(T)
        StateOf(i) == IF i % 3 = 1 THEN Running(LiveNode)
                      ELSE IF i % 3 = 2 THEN Running(DeadNode)
                      ELSE CanRun
        states == [k \in DOMAIN base |->
                     IF \E i \in 1..n : k = FullGlobalTaskStatePath(NameOf(i))
                     THEN [base[k] EXCEPT !.value =
                             StateOf(CHOOSE i \in 1..n : k = FullGlobalTaskStatePath(NameOf(i)))]
                     ELSE base[k]]
    IN  ApplyPut(states, [key |-> LiveNode, value |-> ServerAddr, lease |-> GateLeaseID], n + 2)

InitTask ==
    /\ store = InitStore
    /\ revision = 1
    /\ leases = << >>
    /\ req = InitReq
    /\ sess = InitSess
    /\ pager = InitPager
    /\ variant = InitVariant
    /\ gate = InitGate
    /\ query = InitQuery
    /\ coord = InitCoord

NextTask ==
    \E r \in Reqs : \/ CreateTaskBind(r) /\ UNCHANGED variant
                    \/ CreateTaskGet(r) /\ UNCHANGED variant
                    \/ CreateTaskCommit(r) /\ UNCHANGED variant

SpecTask == InitTask /\ [][NextTask]_vars

\* createTask and its variant without the read, on the same requests.
InitVariantRun == InitTask

NextVariantRun ==
    \E r \in Reqs : \/ CreateTaskBind(r) /\ VariantAtBind(r)
                    \/ CreateTaskGet(r) /\ VariantAtGet(r)
                    \/ CreateTaskCommit(r) /\ VariantAtCommit(r)

SpecVariantRun == InitVariantRun /\ [][NextVariantRun]_vars

InitSession == InitTask

NextSession ==
    \/ \E s \in Sessions : \/ Upgrade(s)
                            \/ ReadMsg(s)
                            \/ ReadErr(s)
                            \/ KeepaliveSend(s)
                            \/ RegisterNewLease(s)
                            \/ RegisterPut(s)
                            \/ KeepAliveOnce(s)
    \/ Tick

SpecSession == InitSession /\ [][NextSession]_vars

InitStatus ==
    /\ \E T \in SUBSET SnapNames : store = Snapshot(T) /\ revision = Cardinality(T) + 1
    /\ leases = << >>
    /\ req = InitReq
    /\ sess = InitSess
    /\ \E l \in 1..MaxLimit, o \in {"", "-"} :
         pager = [InitPager EXCEPT !.limit = l, !.sort = o]
    /\ variant = InitVariant
    /\ gate = InitGate
    /\ query = InitQuery
    /\ coord = InitCoord

NextStatus == StatusNextPage

SpecStatus == InitStatus /\ [][NextStatus]_vars

\* The start of one gateway process, for every setting of its options.
InitStart ==
    /\ store = InitStore
    /\ revision = 1
    /\ leases = << >>
    /\ req = InitReq
    /\ sess = InitSess
    /\ pager = InitPager
    /\ variant = InitVariant
    /\ \E a \in {"", ServerAddr}, f \in BOOLEAN, t \in LeaseTimes :
         gate = [InitGate EXCEPT !.ServerAddr = a, !.AutoFindAddr = f, !.LeaseTime = t]
    /\ query = InitQuery
    /\ coord = InitCoord

NextStart ==
    \/ GateInit
    \/ GoRegisterGateNode
    \/ Run
    \/ RegisterGetAddress
    \/ RegisterGateNewLease
    \/ RegisterGatePut

SpecStart == InitStart /\ [][NextStart]_vars

\* K coordinators restart together over a store with orphaned tasks.
InitReconcile ==
    /\ \E T \in SUBSET TaskNames, live \in BOOLEAN :
         /\ store = RestartStore(T, live)
         /\ leases = IF live THEN [l \in {GateLeaseID} |-> LeaseTime] ELSE << >>
    /\ revision = Cardinality(TaskNames) + 2
    /\ req = InitReq
    /\ sess = InitSess
    /\ pager = InitPager
    /\ variant = InitVariant
    /\ gate = InitGate
    /\ query = InitQuery
    /\ coord = InitCoord

NextReconcile ==
    \E c \in Coords : \/ CoordScan(c)
                      \/ CoordTryLock(c)
                      \/ CoordFinish(c)
                      \/ CoordCheck(c)
                      \/ CoordReassign(c)
                      \/ CoordUnlock(c)

SpecReconcile == InitReconcile /\ [][NextReconcile]_vars

\* One status query over a store of tasks, while the lease of a runtime
\* may expire.
InitStatusQuery ==
    /\ \E n \in 0..SnapTasks : store = QueryStore(n) /\ revision = n + 2
    /\ leases = [l \in {GateLeaseID} |-> LeaseTime]
    /\ req = InitReq
    /\ sess = InitSess
    /\ pager = InitPager
    /\ variant = InitVariant
    /\ gate = InitGate
    /\ query = InitQuery
    /\ coord = InitCoord

NextStatusQuery ==
    \/ StatusBind
    \/ StatusRange
    \/ StatusCount
    \/ StatusItem
    \/ StatusRespond
    \/ \E l \in DOMAIN leases : LeaseExpire(l)

SpecStatusQuery == InitStatusQuery /\ [][NextStatusQuery]_vars

(* ------------------------ createTask: claims ------------------------- *)
Finished(q) == q.pc \in {"done", "panicked"}

Exists(taskName) == FullGlobalTaskPath(taskName) \in DOMAIN store

StateExists(taskName) == FullGlobalTaskStatePath(taskName) \in DOMAIN store

\* The requests that have arrived with a well-formed body for taskName.
ReqsFor(taskName) ==
    {r \in Reqs : /\ req[r].pc # "idle"
                  /\ req[r].param # Malformed
                  /\ req[r].param.taskName = taskName}

Succeeded200(taskName) == {r \in ReqsFor(taskName) : req[r].response.status = 200}

\* C1: of the createTask requests for one taskName, started against a store
\* without that task and interleaved in every way, never more than one gets
\* the success response; once N >= 2 of them have all completed their read
\* and their transaction (no coordination-service error), exactly one has the
\* 200 response and the other N-1 have a 500 response, "duplicate creation"
\* or "txn failed".
C1_ExactlyOneSuccess ==
    \A t \in TaskNames :
      LET R == ReqsFor(t)
          S == Succeeded200(t)
      IN  /\ Cardinality(S) <= 1
          /\ (/\ Cardinality(R) >= 2
              /\ \A r \in R : req[r].pc = "done" /\ ~req[r].err)
             => /\ Cardinality(S) = 1
                /\ \A r \in R \ S :
                     /\ req[r].response.status = 500
                     /\ req[r].response.message \in {"duplicate creation", "txn failed"}

\* Two requests raced the keys-only read (both passed it): one succeeded and
\* the other lost the conditional transaction.
C1_Witness ==
    \E r1, r2 \in Reqs :
      /\ r1 # r2
      /\ req[r1].pc = "done" /\ req[r2].pc = "done"
      /\ ~req[r1].err /\ ~req[r2].err
      /\ req[r1].param.taskName = req[r2].param.taskName
      /\ req[r1].response = Ok
      /\ req[r2].response = Error(500, "txn failed")

\* C2: in every reachable state, for every taskName, the TaskDefinition key
\* exists if and only if the TaskState key exists.
C2_BothOrNeither ==
    \A t \in TaskNames : Exists(t) <=> StateExists(t)

\* One task has both records while another request for a different task
\* ended in a coordination-service error and left neither record.
C2_Witness ==
    \E r1, r2 \in Reqs :
      /\ req[r1].response = Ok
      /\ Exists(req[r1].param.taskName) /\ StateExists(req[r1].param.taskName)
      /\ req[r2].pc = "done" /\ req[r2].err /\ req[r2].param # Malformed
      /\ ~Exists(req[r2].param.taskName) /\ ~StateExists(req[r2].param.taskName)

\* C3 as stated: after any createTask request that returned a failure
\* response, neither record exists for that request's taskName.
C3_Original ==
    \A r \in Reqs :
      (req[r].response.status = 500 /\ req[r].param # Malformed)
        => ~Exists(req[r].param.taskName) /\ ~StateExists(req[r].param.taskName)

\* C3 amended: a createTask request that returned a failure response has
\* written neither record: a TaskDefinition or TaskState of its taskName
\* exists only when another request's create of that taskName succeeded.
C3_FailedWritesNothing ==
    \A r \in Reqs :
      (req[r].response.status = 500 /\ req[r].param # Malformed)
        => LET t == req[r].param.taskName IN
           (Exists(t) \/ StateExists(t)) => Succeeded200(t) \ {r} # {}

\* A request passed the read and then failed in its commit; both records of
\* its taskName exist all the same, written by the other request.
C3_Witness ==
    \E r, r2 \in Reqs :
      /\ r # r2
      /\ req[r].response = Error(500, "txn error")
      /\ req[r2].response = Ok
      /\ req[r2].param.taskName = req[r].param.taskName
      /\ Exists(req[r].param.taskName)
      /\ StateExists(req[r].param.taskName)

\* C4 as stated: every createTask request that has ended has exactly one
\* response, 200 when its transaction succeeded and 500 with {code, message}
\* otherwise (also when the keys-only read or the commit failed).
C4_Claim ==
    \A r \in Reqs :
      Finished(req[r]) =>
        /\ req[r].response # NoResponse
        /\ req[r].succeeded => req[r].response = Ok
        /\ ~req[r].succeeded => /\ req[r].response.status = 500
                                /\ req[r].response.message # ""

\* C5: once the TaskDefinition of a taskName is stored it never changes and
\* its TaskState stays CanRun; the stored definition is the body of the
\* request whose create succeeded; every later create of that taskName ends
\* without success, and one whose keys-only read returns is answered 500
\* "duplicate creation".
C5_Step ==
    \A t \in TaskNames :
      LET d == FullGlobalTaskPath(t)
          s == FullGlobalTaskStatePath(t)
      IN  /\ Exists(t) =>
                /\ d \in DOMAIN store' /\ store'[d] = store[d]
                /\ s \in DOMAIN store' /\ store'[s] = store[s]
                /\ store[s].value = CanRun
                /\ \A r \in ReqsFor(t) :
                     (~Finished(req[r]) /\ Finished(req'[r])) =>
                        /\ req'[r].response.status # 200
                        /\ req'[r].response # NoResponse => req'[r].response.status = 500
                        /\ (req[r].pc = "get" /\ ~req'[r].err) =>
                              req'[r].response = Error(500, "duplicate creation")
          /\ (~Exists(t) /\ d \in DOMAIN store') =>
                \E r \in ReqsFor(t) :
                   /\ req[r].response # Ok /\ req'[r].response = Ok
                   /\ store'[d].value = Marshal(req[r].param)
                   /\ store'[s].value = CanRun

C5_CreatedOnce == [][C5_Step]_vars

\* A second create of an existing task, with a different body, was answered
\* "duplicate creation" and the stored definition is still the first body.
C5_Witness ==
    \E r1, r2 \in Reqs :
      /\ req[r1].response = Ok
      /\ req[r2].response = Error(500, "duplicate creation")
      /\ req[r1].param.taskName = req[r2].param.taskName
      /\ req[r1].param.executer # req[r2].param.executer
      /\ store[FullGlobalTaskPath(req[r1].param.taskName)].value = Marshal(req[r1].param)
      /\ store[FullGlobalTaskStatePath(req[r1].param.taskName)].value = CanRun

\* C16: the keys-only read of createTask changes no outcome.  In every run
\* in which no read has failed with a service error, the variant without
\* the read has exactly the store of createTask (the same keys, values and
\* create revisions), and every completed request has a response from both,
\* a success from one exactly when it has a success from the other.
C16_ReadIsOptimization ==
    (\A r \in Reqs : req[r].pc # "panicked") =>
      /\ variant.store = store
      /\ variant.revision = revision
      /\ \A r \in Reqs :
           /\ req[r].pc = "done" =>
                /\ variant.response[r] # NoResponse
                /\ (req[r].response.status = 200) <=> (variant.response[r].status = 200)
           /\ req[r].pc \in {"idle", "get", "txn"} => variant.response[r] = NoResponse

\* Two creates of one task: the first succeeded, the second was refused by
\* the read as a duplicate, where the variant refused it in the transaction.
C16_Witness ==
    \E r, r2 \in Reqs :
      /\ r # r2
      /\ req[r].pc = "done" /\ req[r].response = Ok
      /\ req[r2].pc = "done" /\ req[r2].response = Error(500, "duplicate creation")
      /\ req[r2].param.taskName = req[r].param.taskName
      /\ variant.response[r] = Ok
      /\ variant.response[r2] = Error(500, "txn failed")
      /\ variant.store = store /\ DOMAIN store # {}

(* ------------------------- sessions: claims -------------------------- *)
\* The session state of section 4.3, read off the handler: "Connecting"
\* before the upgrade, then Unbound while first is true, Bound once the
\* whoami has been read, Closed when the handler has left its loop.
SessState(q) ==
    IF q.hpc = "done" THEN "Closed"
    ELSE IF q.hpc = "init" THEN "Connecting"
    ELSE IF q.first THEN "Unbound" ELSE "Bound"

\* C6 as stated: the node record a session registers after its whoami named
\* worker w is the key /scheduler/runtime/node/<w>, attached to the
\* session's lease, and sessions of two different workers register two
\* different node keys.
C6_Claim ==
    \A s \in Sessions :
      sess[s].nodeKey # <<>> =>
        /\ sess[s].nodeKey = FullRuntimeNodePath(sess[s].runtimeName)
        /\ \A s2 \in Sessions :
             (sess[s2].nodeKey # <<>> /\ sess[s2].runtimeName # sess[s].runtimeName)
               => sess[s2].nodeKey # sess[s].nodeKey

SessionStep(q, q2) ==
    /\ <<SessState(q), SessState(q2)>> \in
         { <<"Connecting", "Connecting">>, <<"Connecting", "Unbound">>,
           <<"Connecting", "Closed">>, <<"Unbound", "Unbound">>,
           <<"Unbound", "Bound">>, <<"Unbound", "Closed">>,
           <<"Bound", "Bound">>, <<"Bound", "Closed">>, <<"Closed", "Closed">> }
    /\ (SessState(q) = "Unbound" /\ SessState(q2) = "Bound")
         <=> (q.started = 0 /\ q2.started = 1)
    /\ (SessState(q) = "Unbound" /\ SessState(q2) = "Bound")
         => (q.rpc = "none" /\ q2.rpc = "newlease")
    /\ q2.started <= 1
    /\ q2.granted <= q2.started
    /\ SessState(q) = "Bound" => q2.started = q.started
    /\ SessState(q) = "Closed" =>
         /\ q2.first = q.first
         /\ q2.started = q.started
         /\ q.rpc = "range" => q2.rpc = "range"

\* C7: a session moves only along Unbound -> Bound -> Closed; the step from
\* Unbound to Bound is the first message and is the one step that starts a
\* registration routine; no later message starts a second routine and the
\* session never gets a second lease; Closed is terminal: no message is read
\* and nothing is sent to the keepalive channel afterwards.
C7_SessionLifecycle == [][\A s \in Sessions : SessionStep(sess[s], sess'[s])]_vars

\* A session that was bound, registered its node key and then closed, with
\* its one routine left waiting on the channel, next to a session that
\* closed while still Unbound.
C7_Witness ==
    \E s, s2 \in Sessions :
      /\ SessState(sess[s]) = "Closed" /\ ~sess[s].first
      /\ sess[s].started = 1 /\ sess[s].granted = 1
      /\ sess[s].rpc = "range"
      /\ sess[s].leaseID \in DOMAIN leases /\ sess[s].nodeKey \in DOMAIN store
      /\ SessState(sess[s2]) = "Closed" /\ sess[s2].first /\ sess[s2].started = 0

\* C8 as stated: for a Bound session every message after the whoami causes
\* exactly one renewal of the session's own lease: a received heartbeat
\* (handler in keepalive <- true) is never left without a routine that will
\* take it and renew, and no renewal is issued before the lease has been
\* created and the node key written.
C8_Claim ==
    \A s \in Sessions :
      sess[s].started >= 1 =>
        /\ ~(sess[s].hpc = "send" /\ sess[s].rpc = "returned")
        /\ sess[s].rpc = "renew" =>
              (sess[s].leaseID # NoLease /\ sess[s].nodeKey # <<>>)

\* C9 as stated, in its part on the node record: once a session is closed
\* and the TTL after the last renewal of its lease has run out (the lease
\* has expired), the node record the session registered is gone.
C9_Claim ==
    \A s \in Sessions :
      (/\ sess[s].hpc = "done"
       /\ sess[s].rpc = "range"
       /\ sess[s].nodeKey # <<>>
       /\ sess[s].leaseID \notin DOMAIN leases)
        => sess[s].nodeKey \notin DOMAIN store

\* C18 as stated: once a session's transport has closed, the handler and the
\* routine both terminate.  Two states of a session have no further step of
\* its own: the handler waiting in keepalive <- true after the routine has
\* returned, and the routine waiting in for range keepalive after the
\* handler has left its loop (the channel is never closed).  The claim says
\* neither is ever reached.
C18_Claim ==
    \A s \in Sessions :
      /\ ~(sess[s].hpc = "send" /\ sess[s].rpc = "returned")
      /\ ~(sess[s].hpc = "done" /\ sess[s].rpc = "range")

\* C19 as stated: while the session of one worker is Bound, has written its
\* node record and has kept its lease alive by its heartbeats, the close of
\* another worker's session followed by the expiry of that session's lease
\* does not remove the first worker's node record.
C19_Claim ==
    \A s, s2 \in Sessions :
      (/\ s # s2
       /\ sess[s].runtimeName # sess[s2].runtimeName
       /\ SessState(sess[s]) = "Bound"
       /\ sess[s].nodeKey # <<>>
       /\ sess[s].leaseID \in DOMAIN leases
       /\ SessState(sess[s2]) = "Closed"
       /\ sess[s2].leaseID # NoLease
       /\ sess[s2].leaseID \notin DOMAIN leases)
        => sess[s].nodeKey \in DOMAIN store

(* ---------------------- gateway startup: claims ---------------------- *)
\* C13 as stated: once init has run, whatever lease time was configured
\* (below, equal to or above model.RuntimeKeepalive), the lease time the
\* gateway uses, and the TTL of every lease it has created with it, is
\* strictly greater than the keepalive interval.
C13_Claim ==
    /\ gate.pc # "start" => gate.LeaseTime > RuntimeKeepalive
    /\ gate.leaseID \in DOMAIN leases => leases[gate.leaseID] > RuntimeKeepalive

\* C14 as stated: the gateway is never serving requests while its own
\* registration has failed (registerGateNode returned an error, or the
\* listen address was empty).
C14_Claim ==
    ~(gate.pc = "serving" /\ gate.rpc \in {"failed", "panicked"})

\* C17 as stated: once registerGateNode has succeeded, the gateway's node
\* record holds the address getAddress chose (the explicit ServerAddr, or
\* the auto-discovered one), and never the empty string.
C17_Claim ==
    gate.rpc = "registered" =>
      /\ FullGateNodePath(NodeName) \in DOMAIN store
      /\ store[FullGateNodePath(NodeName)].value = gate.addr
      /\ store[FullGateNodePath(NodeName)].value # ""

(* -------------------- restart reconciliation: claims ----------------- *)
\* The coordinators that have reassigned taskName.
Reassigners(taskName) == {c \in Coords : taskName \in coord[c].did}

\* taskName was running on a runtime that is not live when the coordinators
\* restarted: it still is, or a coordinator has reassigned it.
WasOrphan(taskName) == Orphan(store, taskName) \/ Reassigners(taskName) # {}

AllDone == \A c \in Coords : coord[c].pc = "done"

FullOrdering(st, sort) ==
    GetRange(st, GlobalTaskPrefixState, endGlobalTaskKey, SortOrder(sort), 0)

NoDuplicates(q) == \A i, j \in 1..Len(q) : i # j => q[i] # q[j]

IsPrefix(q, full) == Len(q) <= Len(full) /\ q = SubSeq(full, 1, Len(q))

\* C10 as stated: over a fixed snapshot, the pages obtained by passing each
\* returned startKey to the next call concatenate to the full key ordering:
\* no record twice, none left out, and the client is done with all of them.
C10_Claim ==
    /\ NoDuplicates(pager.pages)
    /\ IsPrefix(pager.pages, FullOrdering(store, pager.sort))
    /\ pager.done => pager.pages = FullOrdering(store, pager.sort)

(* ----------------------- status query: claims ------------------------ *)
\* The query has been answered with a table or a json envelope.
Answered == query.pc = "done" /\ query.response.status = 200
            /\ query.response.format \in {"table", "json"}

\* The keys of the TaskState records of the store.
StateKeys == {k \in DOMAIN store : IsStateKey(k)}

\* The items q are at most limit (10 for limit 0), each with a key at or
\* after start, in the key order sort asks for.
PageOf(q, start, limit, sort) ==
    /\ Len(q) <= (IF limit = 0 THEN 10 ELSE limit)
    /\ \A i \in 1..Len(q) : ~KeyLess(q[i].key, start)
    /\ \A i, j \in 1..Len(q) :
         i < j => IF sort = "-" THEN KeyLess(q[j].key, q[i].key)
                  ELSE KeyLess(q[i].key, q[j].key)

\* Every item of q is a TaskState record.
AllTaskStates(q) == \A i \in 1..Len(q) : q[i].key \in StateKeys

AskedStartKey(p) ==
    IF p.ID = <<>> /\ p.StartKey # <<>> THEN p.StartKey ELSE GlobalTaskPrefixState

C12_Claim ==
    query.pc = "done" =>
      /\ query.response.status = 500 => query.failed
      /\ query.response.status = 200 =>
           \A i \in 1..Len(query.response.items) :
             query.response.items[i].address = query.response.items[i].looked

====
